---- MODULE Spec2Model ----
(***************************************************************************)
(* State-machine model of the e-commerce backend (gitsurajkr/Backend).     *)
(* The database tables are sets of rows; every HTTP handler is an action   *)
(* (or, where interleaving of database calls matters, one action per       *)
(* awaited database call).  Each subsystem has its own specification:      *)
(*   SpecAuth     registerUser                                             *)
(*   SpecProduct  product catalogue, verification workflow, role changes   *)
(*   SpecOtp      sendOtp / verifyOtpAndAssignRole                         *)
(*   SpecCart     addToCart / checkoutCart                                 *)
(*   SpecOrder    createOrder (per-seller fan-out)                         *)
(*   SpecAddr     buyer addresses                                          *)
(*   SpecAdd      addToCart, database call by database call                *)
(*   SpecRole     assignBuyer / assignSeller next to the OTP flow          *)
(*   SpecAttempts repeated verifications against one stored OTP            *)
(*   SpecVerify   verifySeller                                             *)
(*   SpecReset    passwordRequest / updatePassword                         *)
(* Variables that a specification does not use keep their initial value.   *)
(***************************************************************************)
EXTENDS Integers, Sequences, FiniteSets, TLC

VARIABLES
  users,          \* table User: set of [id, email, role]
  refreshTokens,  \* table RefreshToken: set of [userId, token]
  nextId,         \* source of generated primary keys (uuid())
  reg,            \* registerUser requests in flight, per request slot
  calls,          \* number of requests started so far (bounds the run)
  tokens,         \* access tokens (JWT) issued and still valid: [id, email, role]
  sellers,        \* table Seller: set of [sellerId]
  products,       \* table Product: set of [id, sellerId, status]
  last,           \* the request answered by the latest step: [op, actor, arg, status]
  carts,          \* table Cart: set of [id, userId, totalPrice]
  cartItems,      \* table CartItems: set of [id, cartId, productId, quantity, price]
  stock,          \* column Product.stock, by product id
  orders,         \* table Order with its items: set of [id, userId, totalAmount, items]
  co,             \* checkoutCart requests in flight, per request slot
  buyers,         \* table Buyer: set of [id, BuyerId]
  addresses,      \* table Address: set of [id, buyerId, isDefault]
  ar,             \* address requests in flight, per request slot
  ord,            \* the createOrder request being served
  otps,           \* table Otp: set of [id, userId, otp, expiresAt, attempts]
  now,            \* the server's clock (new Date()), in ticks (five minutes; half an hour in SpecReset)
  vr,             \* verifyOtpAndAssignRole requests in flight, per request slot
  ad,             \* addToCart requests followed call by call, per request slot
  ab,             \* assignBuyer requests between user.update and buyer.create: user ids
  fails,          \* history: verifications answered 400 while the caller's Otp row was stored
  userVerified,   \* column User.isVerified: ids of the users where it is true
  sellerVerified, \* column Seller.isVerified: sellerIds of the Seller rows where it is true
  vs,             \* verifySeller requests between user.update and seller.update: user ids
  resetTokens,    \* table PasswordResetToken: set of [userId, token, expiresAt]
  passwords,      \* column User.password, by user id
  issued,         \* history: the reset tokens stored so far, [userId, raw]
  spent,          \* history: the reset tokens an updatePassword answered 200 for
  pq,             \* passwordRequest requests between deleteMany and create
  up              \* updatePassword requests in flight, per request slot

authVars    == <<users, refreshTokens, nextId, reg>>
productVars == <<tokens, sellers, products>>

shopVars    == <<carts, cartItems, stock, orders, co>>
\* the variables of the subsystems other than the accounts and the catalogue
addrVars    == <<buyers, addresses, ar>>
orderVars   == <<ord>>
otpVars     == <<otps, now, vr, ab, fails>>
addVars     == <<ad>>
verifyVars  == <<userVerified, sellerVerified, vs>>
resetVars   == <<resetTokens, passwords, issued, spent, pq, up>>
restVars    == <<shopVars, addrVars, orderVars, otpVars, addVars, verifyVars, resetVars>>
\* what the handlers of one subsystem leave alone in the other subsystems
outShop     == <<addrVars, orderVars, otpVars, addVars, verifyVars, resetVars>>
outAddr     == <<shopVars, orderVars, otpVars, addVars, verifyVars, resetVars>>

vars == <<users, refreshTokens, nextId, reg, calls, tokens, sellers, products, last, restVars>>

----------------------------------------------------------------------------
(* Bounds *)
MaxCalls == 4          \* requests started in one behaviour
MaxProducts == 2       \* rows of table Product

(* Inputs *)
Emails   == {"a@x", "b@x"}
RegSlots == {1, 2}

NoReq == [op |-> "none", actor |-> 0, arg |-> 0, status |-> 0]

CoSlots == {1, 2}
\* n alternates between 0 and 1 with every request the slot serves
\* order: the id of the Order the request created (0: none)
IdleCo == [pc |-> "idle", n |-> 0, userid |-> 0, items |-> {}, todo |-> {}, order |-> 0,
           resp |-> "none"]

\* the tables and requests of a subsystem that a specification does not use
ShopIdle ==
  /\ carts = {} /\ cartItems = {} /\ orders = {}
  /\ stock = << >>
  /\ co = [s \in CoSlots |-> IdleCo]
AddrSlots == {1, 2}
IdleAr == [pc |-> "idle", n |-> 0, op |-> "none", uid |-> 0, isDefault |-> FALSE,
           addressId |-> 0, resp |-> "none"]
AddrIdle ==
  /\ buyers = {} /\ addresses = {}
  /\ ar = [s \in AddrSlots |-> IdleAr]
IdleOrd == [pc |-> "idle", buyerId |-> 0, items |-> << >>, groups |-> << >>,
            pending |-> {}, created |-> {}, failed |-> FALSE, resp |-> 0]
OrderIdle == ord = IdleOrd
VrSlots == {1, 2}
IdleVr == [pc |-> "idle", n |-> 0, uid |-> 0, otp |-> "none", role |-> "none",
           stored |-> 0, resp |-> 0]
OtpIdle == otps = {} /\ now = 0 /\ vr = [s \in VrSlots |-> IdleVr] /\ ab = {} /\ fails = 0
AdSlots == {1, 2}
\* cart, line: what the request read (the cart was found; the id and quantity of
\* the line of the product, 0 when there is none)
IdleAd == [pc |-> "idle", n |-> 0, userId |-> 0, title |-> "none", quantity |-> 0,
           price |-> 0, cart |-> FALSE, line |-> 0, lineQty |-> 0, resp |-> 0]
AdIdle == ad = [s \in AdSlots |-> IdleAd]
VerifyIdle == userVerified = {} /\ sellerVerified = {} /\ vs = {}
UpSlots == {1, 2}
IdleUp == [pc |-> "idle", n |-> 0, raw |-> 0, pw |-> "", userId |-> 0, resp |-> 0]
ResetIdle == /\ resetTokens = {} /\ passwords = <<>> /\ issued = {} /\ spent = {}
             /\ pq = {} /\ up = [s \in UpSlots |-> IdleUp]
RestIdle == ShopIdle /\ AddrIdle /\ OrderIdle /\ OtpIdle /\ AdIdle /\ VerifyIdle /\ ResetIdle

ProductStatus == {"PENDING", "APPROVED", "REJECTED"}
\* what a request body may carry in its status field ("none": no such field)
BodyStatus    == {"none", "PENDING", "APPROVED", "REJECTED", "BOGUS"}

----------------------------------------------------------------------------
(* registerUser, src/src/apis/controler/auth.controller.ts:123-173 *)

\* prisma.user.findUnique({ where: { email } }) is not null
ExistingUserNever(email) == FALSE
ExistingUser(email) == \E u \in users : u.email = email

\* @unique on User.email: the insert is rejected (P2002) when the email is taken
EmailUniqueViolation(email) == \E u \in users : u.email = email

IdleReg == [pc |-> "idle", email |-> "", resp |-> "none"]

\* validation, then the findUnique on the email
RegisterFind(r, email, valid) ==
  /\ reg[r].pc \in {"idle", "done"}
  /\ calls < MaxCalls
  /\ calls' = calls + 1
  /\ IF ~valid
       THEN reg' = [reg EXCEPT ![r] = [pc |-> "done", email |-> email, resp |-> "400 validation"]]
       ELSE IF ExistingUser(email)
         THEN reg' = [reg EXCEPT ![r] = [pc |-> "done", email |-> email, resp |-> "400 User already exists"]]
         ELSE reg' = [reg EXCEPT ![r] = [pc |-> "create", email |-> email, resp |-> "none"]]
  /\ UNCHANGED <<users, refreshTokens, nextId, productVars, last, restVars>>

\* prisma.user.create; a unique violation is caught and answered 500
RegisterCreate(r) ==
  /\ reg[r].pc = "create"
  /\ IF EmailUniqueViolation(reg[r].email)
       THEN /\ reg' = [reg EXCEPT ![r].pc = "done", ![r].resp = "500"]
            /\ UNCHANGED <<users, nextId>>
       ELSE /\ users' = users \cup {[id |-> nextId, email |-> reg[r].email, role |-> "USER"]}
            /\ nextId' = nextId + 1
            /\ reg' = [reg EXCEPT ![r].pc = "token"]
  /\ UNCHANGED <<refreshTokens, calls, productVars, last, restVars>>

\* prisma.refreshToken.create, then 201
RegisterToken(r) ==
  /\ reg[r].pc = "token"
  /\ LET u == CHOOSE u \in users : u.email = reg[r].email
     IN refreshTokens' = refreshTokens \cup {[userId |-> u.id, token |-> nextId]}
  /\ nextId' = nextId + 1
  /\ reg' = [reg EXCEPT ![r].pc = "done", ![r].resp = "201"]
  /\ UNCHANGED <<users, calls, productVars, last, restVars>>

InitAuth ==
  /\ users = {}
  /\ refreshTokens = {}
  /\ nextId = 1
  /\ reg = [r \in RegSlots |-> IdleReg]
  /\ calls = 0
  /\ tokens = {}
  /\ sellers = {}
  /\ products = {}
  /\ last = NoReq
  /\ RestIdle

NextAuth ==
  \/ \E r \in RegSlots, e \in Emails, v \in BOOLEAN : RegisterFind(r, e, v)
  \/ \E r \in RegSlots : RegisterCreate(r)
  \/ \E r \in RegSlots : RegisterToken(r)

SpecAuth == InitAuth /\ [][NextAuth]_vars

\* C1: registerUser called with an email that already belongs to a User
\* answers 400 'User already exists' and creates no User and no RefreshToken
\* row; in every reachable state at most one User row exists per email.
C1_RegisterDuplicateRejected ==
  /\ [](\A u1, u2 \in users : u1.email = u2.email => u1 = u2)
  /\ [][\A r \in RegSlots :
         ( /\ reg[r].pc \in {"idle", "done"}
           /\ reg'[r] # reg[r]
           /\ reg'[r].resp # "400 validation"
           /\ \E u \in users : u.email = reg'[r].email )
         => /\ reg'[r].resp = "400 User already exists"
            /\ users' = users
            /\ refreshTokens' = refreshTokens]_vars

C1_Witness ==
  \E r \in RegSlots :
    /\ reg[r].resp = "400 User already exists"
    /\ \E u \in users : u.email = reg[r].email

----------------------------------------------------------------------------
(* Product catalogue and verification workflow,                            *)
(* src/src/apis/controler/product.controller.ts:14-1110, behind the        *)
(* middleware of src/src/routes/products.routes.ts and src/unnamed/part_009 *)

Answer(op, actor, arg, status) == [op |-> op, actor |-> actor, arg |-> arg, status |-> status]

\* verifyTokenAndGetUser: the User row whose email is the token's email
UserOf(tok) == CHOOSE u \in users : u.email = tok.email
HasUser(tok) == \E u \in users : u.email = tok.email

\* middleware isAdmin / isSeller / isAdminOrSeller read the role claim of the JWT
isAdmin(tok)         == tok.role = "ADMIN"
isSeller(tok)        == tok.role = "SELLER"
isAdminOrSeller(tok) == tok.role \in {"ADMIN", "SELLER"}

\* Product.sellerId references Seller.sellerId
SellerFkOk(uid) == \E s \in sellers : s.sellerId = uid

\* generateAccessToken(user): the role claim is the role at sign-in
signinUser(u) ==
  /\ u \in users
  /\ tokens' = tokens \cup {[id |-> u.id, email |-> u.email, role |-> u.role]}
  /\ last' = Answer("signinUser", u.id, 0, 200)
  /\ UNCHANGED <<authVars, calls, sellers, products, restVars>>

\* assignSeller: only a BUYER is refused; role update and Seller row in one transaction
assignSeller(tok, fieldsOk) ==
  /\ tok \in tokens /\ HasUser(tok)
  /\ LET u == UserOf(tok) IN
       IF u.role = "BUYER"
         THEN /\ last' = Answer("assignSeller", u.id, 0, 403)
              /\ UNCHANGED <<users, sellers>>
       ELSE IF ~fieldsOk
         THEN /\ last' = Answer("assignSeller", u.id, 0, 400)
              /\ UNCHANGED <<users, sellers>>
       ELSE IF \E s \in sellers : s.sellerId = u.id
         THEN /\ last' = Answer("assignSeller", u.id, 0, 500)
              /\ UNCHANGED <<users, sellers>>
         ELSE /\ users' = (users \ {u}) \cup {[u EXCEPT !.role = "SELLER"]}
              /\ sellers' = sellers \cup {[sellerId |-> u.id]}
              /\ last' = Answer("assignSeller", u.id, 0, 201)
  /\ UNCHANGED <<refreshTokens, nextId, reg, calls, tokens, products, restVars>>

\* the status a created product gets: the body's status is omitted by the
\* validation and the literal "PENDING" is written after the spread
CreatedStatus(bodyStatus) == "PENDING"

addProduct(tok, bodyStatus) ==
  /\ tok \in tokens
  /\ Cardinality(products) < MaxProducts
  /\ IF ~isSeller(tok)
       THEN /\ last' = Answer("addProduct", tok.id, 0, 403)
            /\ UNCHANGED <<products, nextId>>
     ELSE IF ~SellerFkOk(tok.id)
       THEN /\ last' = Answer("addProduct", tok.id, 0, 400)
            /\ UNCHANGED <<products, nextId>>
       ELSE /\ products' = products \cup
                 {[id |-> nextId, sellerId |-> tok.id, status |-> CreatedStatus(bodyStatus)]}
            /\ nextId' = nextId + 1
            /\ last' = Answer("addProduct", tok.id, 0, 201)
  /\ UNCHANGED <<users, refreshTokens, reg, calls, tokens, sellers, restVars>>

\* bulkUploadProduct: every product of the array is created in one transaction
bulkUploadProduct(tok, bodies) ==
  /\ tok \in tokens /\ HasUser(tok)
  /\ Cardinality(products) + Len(bodies) <= MaxProducts
  /\ LET u == UserOf(tok) IN
       IF ~isAdminOrSeller(tok) \/ u.role \notin {"ADMIN", "SELLER"}
         THEN /\ last' = Answer("bulkUploadProduct", u.id, 0, 403)
              /\ UNCHANGED <<products, nextId>>
       ELSE IF ~SellerFkOk(u.id)
         THEN /\ last' = Answer("bulkUploadProduct", u.id, 0, 400)
              /\ UNCHANGED <<products, nextId>>
         ELSE /\ products' = products \cup
                   {[id |-> nextId + i - 1, sellerId |-> u.id, status |-> CreatedStatus(bodies[i])]
                      : i \in 1..Len(bodies)}
              /\ nextId' = nextId + Len(bodies)
              /\ last' = Answer("bulkUploadProduct", u.id, 0, 201)
  /\ UNCHANGED <<users, refreshTokens, reg, calls, tokens, sellers, restVars>>

\* "Only Admin can update `status`": the role tested is the token's claim
MayUpdateStatus(tok, bodyStatus) == tok.role = "ADMIN" /\ bodyStatus # "none"

updateProductById(tok, pid, bodyStatus) ==
  /\ tok \in tokens
  /\ IF ~isAdminOrSeller(tok)
       THEN /\ last' = Answer("updateProductById", tok.id, pid, 403)
            /\ UNCHANGED products
     ELSE IF bodyStatus \notin ProductStatus \cup {"none"}
       THEN /\ last' = Answer("updateProductById", tok.id, pid, 400)
            /\ UNCHANGED products
     ELSE IF ~\E p \in products : p.id = pid
       THEN /\ last' = Answer("updateProductById", tok.id, pid, 404)
            /\ UNCHANGED products
       ELSE LET p == CHOOSE p \in products : p.id = pid IN
            IF tok.role # "ADMIN" /\ p.sellerId # tok.id
              THEN /\ last' = Answer("updateProductById", tok.id, pid, 403)
                   /\ UNCHANGED products
              ELSE /\ products' = (products \ {p}) \cup
                        {[p EXCEPT !.status = IF MayUpdateStatus(tok, bodyStatus)
                                               THEN bodyStatus ELSE @]}
                   /\ last' = Answer("updateProductById", tok.id, pid, 200)
  /\ UNCHANGED <<authVars, calls, tokens, sellers, restVars>>

\* where: { status: "PENDING" }
PendingAll(set) == set
Pending(set) == {p \in set : p.status = "PENDING"}

Approve(targets) ==
  products' = (products \ targets) \cup {[p EXCEPT !.status = "APPROVED"] : p \in targets}

verifyAllProducts(tok) ==
  /\ tok \in tokens /\ HasUser(tok)
  /\ LET u == UserOf(tok) IN
       IF ~isAdmin(tok) \/ u.role # "ADMIN"
         THEN /\ last' = Answer("verifyAllProducts", u.id, 0, 403)
              /\ UNCHANGED products
       ELSE IF Pending(products) = {}
         THEN /\ last' = Answer("verifyAllProducts", u.id, 0, 400)
              /\ UNCHANGED products
         ELSE /\ Approve(Pending(products))
              /\ last' = Answer("verifyAllProducts", u.id, 0, 200)
  /\ UNCHANGED <<authVars, calls, tokens, sellers, restVars>>

verifyProductById(tok, pid) ==
  /\ tok \in tokens /\ HasUser(tok)
  /\ LET u == UserOf(tok) IN
       IF u.role # "ADMIN"
         THEN /\ last' = Answer("verifyProductById", u.id, pid, 403)
              /\ UNCHANGED products
       ELSE IF ~\E p \in products : p.id = pid
         THEN /\ last' = Answer("verifyProductById", u.id, pid, 404)
              /\ UNCHANGED products
       ELSE LET p == CHOOSE p \in products : p.id = pid IN
            IF p.status # "PENDING"
              THEN /\ last' = Answer("verifyProductById", u.id, pid, 400)
                   /\ UNCHANGED products
              ELSE /\ Approve({p})
                   /\ last' = Answer("verifyProductById", u.id, pid, 200)
  /\ UNCHANGED <<authVars, calls, tokens, sellers, restVars>>

verifyProductOfSellerEmailByAdmin(tok, email) ==
  /\ tok \in tokens /\ HasUser(tok)
  /\ LET u == UserOf(tok) IN
       IF ~isAdmin(tok) \/ u.role # "ADMIN"
         THEN /\ last' = Answer("verifyProductOfSellerEmailByAdmin", u.id, 0, 403)
              /\ UNCHANGED products
       ELSE IF ~\E s \in users : s.email = email
         THEN /\ last' = Answer("verifyProductOfSellerEmailByAdmin", u.id, 0, 404)
              /\ UNCHANGED products
       ELSE LET s == CHOOSE s \in users : s.email = email
                mine == {p \in products : p.sellerId = s.id}
            IN IF Pending(mine) = {}
                 THEN /\ last' = Answer("verifyProductOfSellerEmailByAdmin", u.id, s.id, 404)
                      /\ UNCHANGED products
                 ELSE /\ Approve(Pending(mine))
                      /\ last' = Answer("verifyProductOfSellerEmailByAdmin", u.id, s.id, 200)
  /\ UNCHANGED <<authVars, calls, tokens, sellers, restVars>>

\* an admin (createAdmin + adminSignIn), a seller and a buyer, each
\* holding the access token of its sign-in
InitProduct ==
  /\ users = { [id |-> 1, email |-> "admin@x", role |-> "ADMIN"],
               [id |-> 2, email |-> "s@x", role |-> "SELLER"],
               [id |-> 3, email |-> "b@x", role |-> "BUYER"] }
  /\ tokens = {[id |-> u.id, email |-> u.email, role |-> u.role] : u \in users}
  /\ sellers = {[sellerId |-> 2]}
  /\ products = {}
  /\ nextId = 10
  /\ refreshTokens = {}
  /\ reg = [r \in RegSlots |-> IdleReg]
  /\ calls = 0
  /\ last = NoReq
  /\ RestIdle

ProductIds == 10..(10 + MaxProducts)
BodySeqs == {<<b>> : b \in {"none", "APPROVED"}} \cup {<<"none", "REJECTED">>}

NextProduct ==
  \/ \E u \in users : signinUser(u)
  \/ \E tok \in tokens, ok \in BOOLEAN : assignSeller(tok, ok)
  \/ \E tok \in tokens, b \in {"none", "APPROVED"} : addProduct(tok, b)
  \/ \E tok \in tokens, bs \in BodySeqs : bulkUploadProduct(tok, bs)
  \/ \E tok \in tokens, pid \in ProductIds, b \in BodyStatus : updateProductById(tok, pid, b)
  \/ \E tok \in tokens : verifyAllProducts(tok)
  \/ \E tok \in tokens, pid \in ProductIds : verifyProductById(tok, pid)
  \/ \E tok \in tokens, e \in {"s@x", "admin@x", "nobody@x"} : verifyProductOfSellerEmailByAdmin(tok, e)

SpecProduct == InitProduct /\ [][NextProduct]_vars

StatusChanged == \E p \in products : \E q \in products' : q.id = p.id /\ q.status # p.status

\* C3: the status of an existing product changes only as the effect of a
\* request made by a user whose role (in table User, when the request is
\* made) is ADMIN; no request of a SELLER, BUYER or USER account changes it.
C3_OnlyAdminChangesStatus ==
  [][StatusChanged => \E u \in users : u.id = last'.actor /\ u.role = "ADMIN"]_vars

VerifyOps == {"verifyProductById", "verifyAllProducts", "verifyProductOfSellerEmailByAdmin"}

\* C8: every product is created with status PENDING whatever the body says;
\* a verification operation leaves every APPROVED or REJECTED product as it
\* is (it only turns PENDING into APPROVED), and verifyProductById answers
\* 400 for a product that is not PENDING.
C8_PendingThenApproved ==
  [][ /\ \A q \in products' : (~\E p \in products : p.id = q.id) => q.status = "PENDING"
      /\ last'.op \in VerifyOps =>
           \A p \in products :
              /\ p.status # "PENDING" => p \in products'
              /\ \A q \in products' : q.id = p.id /\ q.status # p.status
                                        => p.status = "PENDING" /\ q.status = "APPROVED"
      /\ ( /\ last'.op = "verifyProductById"
           /\ \E p \in products : p.id = last'.arg /\ p.status # "PENDING"
           /\ \E u \in users : u.id = last'.actor /\ u.role = "ADMIN" )
         => last'.status = 400 ]_vars

C8_Witness ==
  /\ last.op = "verifyProductById" /\ last.status = 400
  /\ \E p \in products : p.id = last.arg /\ p.status = "REJECTED"
  /\ \E p \in products : p.status = "APPROVED"

----------------------------------------------------------------------------
(* Cart and checkout, src/src/apis/controler/cart.controller.ts:14-75 and  *)
(* 437-518 (the same handlers are in src/unnamed/part_012:202-264, 626-712) *)

ShopProducts == {"p1", "p2"}
InitialStock == [p \in ShopProducts |-> IF p = "p1" THEN 1 ELSE 2]
\* columns Product.price and Product.discount
ProductPrice(p)    == IF p = "p1" THEN 5 ELSE 3
ProductDiscount(p) == IF p = "p1" THEN 1 ELSE 0
Qtys   == {1, 2}
Prices == {3}

Max(a, b) == IF a >= b THEN a ELSE b

RECURSIVE SumLines(_)
\* items.reduce((total, item) => total + item.price * item.quantity, 0)
SumLines(items) ==
  IF items = {} THEN 0
  ELSE LET i == CHOOSE i \in items : TRUE
       IN i.price * i.quantity + SumLines(items \ {i})

RECURSIVE CheckoutTotalNoDiscount(_)
CheckoutTotalNoDiscount(items) ==
  IF items = {} THEN 0
  ELSE LET i == CHOOSE i \in items : TRUE
       IN ProductPrice(i.productId) * i.quantity + CheckoutTotalNoDiscount(items \ {i})

RECURSIVE CheckoutTotal(_)
\* totalPrice += Math.max(item.product.price - discount, 0) * item.quantity
CheckoutTotal(items) ==
  IF items = {} THEN 0
  ELSE LET i == CHOOSE i \in items : TRUE
       IN Max(ProductPrice(i.productId) - ProductDiscount(i.productId), 0) * i.quantity
            + CheckoutTotal(items \ {i})

\* prisma.cart.findUnique({ where: { id }, include: { items: true } })
CartById(cs, id) == {c \in cs : c.id = id}
ItemsOf(its, cartId) == {i \in its : i.cartId = cartId}

\* Cart_userId_fkey: Cart.userId references User.id
CartFkOk(userId) == \E u \in users : u.id = userId

\* the keys a client can send as userId / userid: a user's id or a cart's id
ShopKeys == {u.id : u \in users} \cup {c.id : c \in carts}

addToCart(userId, title, quantity, price) ==
  /\ calls < MaxCalls
  /\ calls' = calls + 1
  /\ IF CartById(carts, userId) = {}
       THEN \* no cart is found under that id: create the cart with its first item
            IF ~CartFkOk(userId)
              THEN /\ UNCHANGED <<carts, cartItems, nextId>>
                   /\ last' = Answer("addToCart", userId, <<title, quantity, price>>, 500)
              ELSE LET created == carts \cup {[id |-> nextId, userId |-> userId, totalPrice |-> 0]}
                          newItems == cartItems \cup {[id |-> nextId + 1, cartId |-> nextId,
                                                       productId |-> title, quantity |-> quantity,
                                                       price |-> price]}
                   IN /\ cartItems' = newItems
                      /\ nextId' = nextId + 2
                         \* updatedCart is read again under { id: userId }
                         /\ IF CartById(created, userId) = {}
                              THEN /\ carts' = created
                                   /\ last' = Answer("addToCart", userId, <<title, quantity, price>>, 500)
                              ELSE /\ carts' = {IF c.id = userId
                                                  THEN [c EXCEPT !.totalPrice = SumLines(ItemsOf(newItems, c.id))]
                                                  ELSE c : c \in created}
                                   /\ last' = Answer("addToCart", userId, <<title, quantity, price>>, 200)
       ELSE LET existingItems == {i \in ItemsOf(cartItems, userId) : i.productId = title}
                newItems ==
                  IF existingItems # {}
                    THEN LET e == CHOOSE e \in existingItems : TRUE
                         IN (cartItems \ {e}) \cup {[e EXCEPT !.quantity = e.quantity + quantity]}
                    ELSE cartItems \cup {[id |-> nextId, cartId |-> userId, productId |-> title,
                                          quantity |-> quantity, price |-> price]}
            IN /\ cartItems' = newItems
               /\ nextId' = IF existingItems # {} THEN nextId ELSE nextId + 1
               /\ carts' = {IF c.id = userId
                              THEN [c EXCEPT !.totalPrice = SumLines(ItemsOf(newItems, c.id))]
                              ELSE c : c \in carts}
               /\ last' = Answer("addToCart", userId, <<title, quantity, price>>, 200)
  /\ UNCHANGED <<users, refreshTokens, reg, productVars, stock, orders, co, outShop>>

\* for (const item of cart.items) if (item.product.stock < item.quantity) -> 400
OutOfStockNever(items) == FALSE
OutOfStock(items) == \E i \in items : stock[i.productId] < i.quantity

\* the lines of a cart as checkoutCart reads them: productId and quantity
Lines(items) == {[productId |-> i.productId, quantity |-> i.quantity] : i \in items}

\* checkoutCart, up to the stock validation: one read of the cart, its items and products
CheckoutRead(s, userid) ==
  /\ co[s].pc \in {"idle", "done"}
  \* the request takes the first free slot
  /\ \A r \in CoSlots : r < s => co[r].pc \notin {"idle", "done"}
  /\ calls < MaxCalls
  /\ calls' = calls + 1
  /\ LET items == ItemsOf(cartItems, userid)
         req == [IdleCo EXCEPT !.n = 1 - co[s].n, !.userid = userid]
     IN IF CartById(carts, userid) = {} \/ items = {}
          THEN co' = [co EXCEPT ![s] = [req EXCEPT !.pc = "done", !.resp = "404 Cart is empty"]]
        ELSE IF OutOfStock(items)
          THEN co' = [co EXCEPT ![s] = [req EXCEPT !.pc = "done", !.resp = "400 Item out of stock"]]
          ELSE co' = [co EXCEPT ![s] = [req EXCEPT !.pc = "order", !.items = Lines(items)]]
  /\ last' = Answer("checkoutCart", userid, 0, 0)
  /\ UNCHANGED <<authVars, productVars, carts, cartItems, stock, orders, outShop>>

\* prisma.order.create; ok = FALSE: the database refuses the row (the catch answers 500)
CheckoutOrder(s, ok) ==
  /\ co[s].pc = "order"
  /\ IF ok
       THEN /\ orders' = orders \cup
                 {[id |-> nextId, userId |-> co[s].userid, totalAmount |-> CheckoutTotal(co[s].items),
                   items |-> {[productId |-> i.productId, quantity |-> i.quantity,
                               price |-> ProductPrice(i.productId)] : i \in co[s].items}]}
            /\ nextId' = nextId + 1
            /\ co' = [co EXCEPT ![s].pc = "stock", ![s].todo = co[s].items,
                                ![s].order = nextId]
       ELSE /\ co' = [co EXCEPT ![s].pc = "done", ![s].items = {}, ![s].resp = "500"]
            /\ UNCHANGED <<orders, nextId>>
  /\ UNCHANGED <<users, refreshTokens, reg, calls, productVars, last, carts, cartItems, stock, outShop>>

\* one prisma.product.update({ data: { stock: { decrement: item.quantity } } }) of the loop
CheckoutStock(s) ==
  /\ co[s].pc = "stock"
  /\ \E i \in co[s].todo :
       /\ stock' = [stock EXCEPT ![i.productId] = @ - i.quantity]
       /\ co' = [co EXCEPT ![s].todo = co[s].todo \ {i},
                           ![s].pc = IF co[s].todo = {i} THEN "clear" ELSE "stock"]
  /\ UNCHANGED <<authVars, calls, productVars, last, carts, cartItems, orders, outShop>>

\* prisma.cartItems.deleteMany({ where: { cartId: userid } })
CheckoutClear(s) ==
  /\ co[s].pc = "clear"
  /\ cartItems' = cartItems \ ItemsOf(cartItems, co[s].userid)
  /\ co' = [co EXCEPT ![s].pc = "mail"]
  /\ UNCHANGED <<authVars, calls, productVars, last, carts, stock, orders, outShop>>

\* transporter.sendMail; ok = FALSE: it throws and the catch answers 500
CheckoutMail(s, ok) ==
  /\ co[s].pc = "mail"
  /\ co' = [co EXCEPT ![s].pc = "done", ![s].items = {}, ![s].order = 0,
                      ![s].resp = IF ok THEN "200" ELSE "500"]
  /\ UNCHANGED <<authVars, calls, productVars, last, carts, cartItems, stock, orders, outShop>>

\* two registered users, two products in stock, no cart yet
InitCart ==
  /\ users = { [id |-> 1, email |-> "a@x", role |-> "USER"],
               [id |-> 2, email |-> "b@x", role |-> "USER"] }
  /\ refreshTokens = {}
  /\ nextId = 10
  /\ reg = [r \in RegSlots |-> IdleReg]
  /\ calls = 0
  /\ tokens = {} /\ sellers = {} /\ products = {}
  /\ last = NoReq
  /\ carts = {} /\ cartItems = {} /\ orders = {}
  /\ stock = InitialStock
  /\ co = [s \in CoSlots |-> IdleCo]
  /\ AddrIdle /\ OrderIdle /\ OtpIdle /\ AdIdle /\ VerifyIdle /\ ResetIdle

NextCart ==
  \/ \E k \in ShopKeys, p \in ShopProducts, q \in Qtys, pr \in Prices : addToCart(k, p, q, pr)
  \/ \E s \in CoSlots, k \in ShopKeys : CheckoutRead(s, k)
  \/ \E s \in CoSlots, ok \in BOOLEAN : CheckoutOrder(s, ok)
  \/ \E s \in CoSlots : CheckoutStock(s)
  \/ \E s \in CoSlots : CheckoutClear(s)
  \/ \E s \in CoSlots, ok \in BOOLEAN : CheckoutMail(s, ok)

SpecCart == InitCart /\ [][NextCart]_vars

\* C2: a checkoutCart request on a cart in which some item has
\* product.stock < item.quantity is answered 400 'Item out of stock' and
\* changes nothing: no Order is created, no stock is decremented and the
\* cart's items stay as they were.
C2_OutOfStockChangesNothing ==
  [][\A s \in CoSlots :
       ( /\ co'[s].n # co[s].n
         /\ \E i \in cartItems : i.cartId = co'[s].userid /\ stock[i.productId] < i.quantity )
       => /\ co'[s].pc = "done"
          /\ co'[s].resp = "400 Item out of stock"
          /\ orders' = orders
          /\ stock' = stock
          /\ cartItems' = cartItems
          /\ carts' = carts]_vars

C2_Witness ==
  \E s \in CoSlots :
     /\ co[s].resp = "400 Item out of stock"
     /\ \E i, j \in cartItems : /\ i.cartId = co[s].userid /\ j.cartId = co[s].userid
                                /\ stock[i.productId] < i.quantity
                                /\ stock[j.productId] >= j.quantity

\* C4: addToCart for a user who has no cart leaves a Cart of that user with
\* exactly one CartItems row (the requested product, quantity and price),
\* totalPrice = price * quantity, and answers 200.
C4_AddToCartCreatesCart ==
  [][( /\ calls' # calls
       /\ last'.op = "addToCart"
       /\ \E u \in users : u.id = last'.actor
       /\ ~\E c \in carts : c.userId = last'.actor )
     => /\ last'.status = 200
        /\ \E c \in carts' :
             /\ c.userId = last'.actor
             /\ c.totalPrice = last'.arg[3] * last'.arg[2]
             /\ \E i \in cartItems' :
                  /\ ItemsOf(cartItems', c.id) = {i}
                  /\ i.productId = last'.arg[1] /\ i.quantity = last'.arg[2]
                  /\ i.price = last'.arg[3]]_vars

RECURSIVE Ordered(_, _)
\* the quantity of product p placed in the orders os
Ordered(os, p) ==
  IF os = {} THEN 0
  ELSE LET o == CHOOSE o \in os : TRUE
           mine == {i \in o.items : i.productId = p}
       IN (IF mine = {} THEN 0 ELSE (CHOOSE i \in mine : TRUE).quantity) + Ordered(os \ {o}, p)

QtyIn(lines, p) ==
  IF \E i \in lines : i.productId = p
    THEN (CHOOSE i \in lines : i.productId = p).quantity
    ELSE 0

RECURSIVE DueFor(_, _)
\* the sum over the products ps of max(price - discount, 0) * quantity
DueFor(lines, ps) ==
  IF ps = {} THEN 0
  ELSE LET p == CHOOSE p \in ps : TRUE
           unit == IF ProductPrice(p) > ProductDiscount(p)
                     THEN ProductPrice(p) - ProductDiscount(p) ELSE 0
       IN unit * QtyIn(lines, p) + DueFor(lines, ps \ {p})

\* C11: a checkoutCart request whose cart items all have
\* product.stock >= item.quantity and whose steps all succeed creates one
\* Order with the cart's productIds and quantities and
\* totalAmount = sum of max(price - discount, 0) * quantity, decrements each
\* product's stock by exactly the ordered quantity, empties the cart and
\* only then answers 200.
C11_CheckoutSuccess ==
  [][\A s \in CoSlots :
       \* the request goes on exactly with the lines of the cart it read
       /\ (co'[s].n # co[s].n /\ co'[s].pc = "order") =>
             /\ co'[s].items = {[productId |-> i.productId, quantity |-> i.quantity] :
                                  i \in {j \in cartItems : j.cartId = co'[s].userid}}
             /\ \A i \in co'[s].items : stock[i.productId] >= i.quantity
       \* one Order with those lines and the discounted total
       /\ (co[s].pc = "order" /\ co'[s].pc = "stock") =>
             \E o \in orders' :
               /\ o \notin orders /\ orders' = orders \cup {o}
               /\ o.userId = co[s].userid
               /\ {[productId |-> i.productId, quantity |-> i.quantity] : i \in o.items}
                    = co[s].items
               /\ o.totalAmount = DueFor(co[s].items, ShopProducts)
               /\ co'[s].todo = co[s].items
       \* every line's stock is decremented once, by its quantity
       /\ (co[s].pc = "stock" /\ co'[s] # co[s]) =>
             \E i \in co[s].todo :
               /\ stock' = [stock EXCEPT ![i.productId] = stock[i.productId] - i.quantity]
               /\ co'[s].todo = co[s].todo \ {i}
               /\ co'[s].pc = "clear" <=> co'[s].todo = {}
       \* the cart is emptied
       /\ (co[s].pc = "clear" /\ co'[s].pc = "mail") =>
             ~ \E i \in cartItems' : i.cartId = co[s].userid
       \* 200 is the answer of a request that went through all of it
       /\ (co'[s].resp = "200" /\ co[s].resp # "200") => co[s].pc = "mail"
       /\ (co'[s].pc = "mail") => co[s].pc \in {"clear", "mail"}
       /\ (co'[s].pc = "clear") => co[s].pc \in {"stock", "clear"}
       /\ (co'[s].pc = "stock") => co[s].pc \in {"order", "stock"}
    ]_vars

C11_Witness ==
  \E s \in CoSlots :
    /\ co[s].pc = "done" /\ co[s].resp = "200"
    /\ ItemsOf(cartItems, co[s].userid) = {}
    /\ \E o \in orders :
         /\ o.userId = co[s].userid
         /\ Cardinality(o.items) = 2
         /\ o.totalAmount = 7
    /\ stock["p1"] = 0 /\ stock["p2"] = 1

-----------------------------------------------------------------------------
\* addToCart followed through its awaited database calls (the read of the
\* cart, the write of the line, the recomputation of totalPrice), so that two
\* requests for the same cart overlap.

MaxAddCalls == 3       \* addToCart requests started in one behaviour

LineExistsNever(cartId, productId) == FALSE

\* CartItems_cartId_productId_key
LineExists(cartId, productId) ==
  \E i \in cartItems : i.cartId = cartId /\ i.productId = productId

\* prisma.cart.findUnique({ where: { id: userId }, include: { items: true } })
AddToCartRead(s, userId, title, quantity, price) ==
  /\ calls < MaxAddCalls
  /\ calls' = calls + 1
  /\ ad[s].pc \in {"idle", "done"}
  /\ \A r \in AdSlots : ad[r].pc = "idle" => ad[s].pc = "idle"
  /\ LET existingItems == {i \in ItemsOf(cartItems, userId) : i.productId = title}
         e == CHOOSE e \in existingItems : TRUE
     IN ad' = [ad EXCEPT ![s] =
                 [pc |-> "write", n |-> 1 - ad[s].n, userId |-> userId, title |-> title,
                  quantity |-> quantity, price |-> price,
                  cart |-> CartById(carts, userId) # {},
                  line |-> IF existingItems # {} THEN e.id ELSE 0,
                  lineQty |-> IF existingItems # {} THEN e.quantity ELSE 0,
                  resp |-> 0]]
  /\ last' = Answer("addToCart", userId, 0, 0)
  /\ UNCHANGED <<users, refreshTokens, reg, nextId, productVars, shopVars, addrVars,
                 orderVars, otpVars, verifyVars, resetVars>>

\* cart.create with its first item, cartItems.update or cartItems.create
AddToCartWrite(s) ==
  /\ ad[s].pc = "write"
  /\ LET r == ad[s]
         fail == /\ ad' = [ad EXCEPT ![s].pc = "done", ![s].resp = 500]
                 /\ UNCHANGED <<carts, cartItems, nextId>>
     IN IF ~ r.cart
          THEN IF ~ CartFkOk(r.userId) THEN fail
               ELSE /\ carts' = carts \cup {[id |-> nextId, userId |-> r.userId, totalPrice |-> 0]}
                    /\ cartItems' = cartItems \cup
                         {[id |-> nextId + 1, cartId |-> nextId, productId |-> r.title,
                           quantity |-> r.quantity, price |-> r.price]}
                    /\ nextId' = nextId + 2
                    /\ ad' = [ad EXCEPT ![s].pc = "total"]
        ELSE IF r.line # 0
          THEN IF ~ \E i \in cartItems : i.id = r.line THEN fail
               ELSE /\ cartItems' = {IF i.id = r.line
                                       THEN [i EXCEPT !.quantity = r.lineQty + r.quantity]
                                       ELSE i : i \in cartItems}
                    /\ UNCHANGED <<carts, nextId>>
                    /\ ad' = [ad EXCEPT ![s].pc = "total"]
        ELSE IF LineExists(r.userId, r.title) THEN fail
             ELSE /\ cartItems' = cartItems \cup
                       {[id |-> nextId, cartId |-> r.userId, productId |-> r.title,
                         quantity |-> r.quantity, price |-> r.price]}
                  /\ nextId' = nextId + 1
                  /\ UNCHANGED carts
                  /\ ad' = [ad EXCEPT ![s].pc = "total"]
  /\ UNCHANGED <<users, refreshTokens, reg, calls, productVars, last, stock, orders, co,
                 addrVars, orderVars, otpVars, verifyVars, resetVars>>

\* the cart is read again under { id: userId } and its totalPrice written
AddToCartTotal(s) ==
  /\ ad[s].pc = "total"
  /\ IF CartById(carts, ad[s].userId) = {}
       THEN /\ ad' = [ad EXCEPT ![s].pc = "done", ![s].resp = 500]
            /\ UNCHANGED carts
       ELSE /\ carts' = {IF c.id = ad[s].userId
                           THEN [c EXCEPT !.totalPrice = SumLines(ItemsOf(cartItems, c.id))]
                           ELSE c : c \in carts}
            /\ ad' = [ad EXCEPT ![s].pc = "done", ![s].resp = 200]
  /\ UNCHANGED <<users, refreshTokens, reg, nextId, calls, productVars, last, cartItems,
                 stock, orders, co, addrVars, orderVars, otpVars, verifyVars, resetVars>>

NextAdd ==
  \/ \E s \in AdSlots, k \in ShopKeys, p \in ShopProducts, q \in Qtys, pr \in Prices :
       AddToCartRead(s, k, p, q, pr)
  \/ \E s \in AdSlots : AddToCartWrite(s)
  \/ \E s \in AdSlots : AddToCartTotal(s)

SpecAdd == InitCart /\ [][NextAdd]_vars

----------------------------------------------------------------------------
(* Buyer addresses, src/src/apis/order/controller/order.controller.ts:195-302 *)

\* prisma.buyer.findUnique({ where: { BuyerId: userId } })
IsBuyer(uid) == \E b \in buyers : b.BuyerId = uid

\* prisma.address.findFirst({ where: { id: addressId, buyerId: userId } })
OwnAddress(addressId, uid) == {a \in addresses : a.id = addressId /\ a.buyerId = uid}

\* addBuyerAddress, up to the buyer lookup
AddAddressFind(s, uid, isDefault) ==
  /\ ar[s].pc \in {"idle", "done"}
  /\ \A r \in AddrSlots : r < s => ar[r].pc \notin {"idle", "done"}
  /\ calls < MaxCalls
  /\ calls' = calls + 1
  /\ LET req == [IdleAr EXCEPT !.n = 1 - ar[s].n, !.op = "addBuyerAddress", !.uid = uid,
                               !.isDefault = isDefault]
     IN IF ~IsBuyer(uid)
          THEN ar' = [ar EXCEPT ![s] = [req EXCEPT !.pc = "done", !.resp = "403"]]
          ELSE ar' = [ar EXCEPT ![s] = [req EXCEPT !.pc = IF isDefault THEN "clear" ELSE "create"]]
  /\ UNCHANGED <<authVars, productVars, last, buyers, addresses, outAddr>>

\* updateBuyerAddress, up to the ownership lookup
UpdateAddressFind(s, uid, addressId, isDefault) ==
  /\ ar[s].pc \in {"idle", "done"}
  /\ \A r \in AddrSlots : r < s => ar[r].pc \notin {"idle", "done"}
  /\ calls < MaxCalls
  /\ calls' = calls + 1
  /\ LET req == [IdleAr EXCEPT !.n = 1 - ar[s].n, !.op = "updateBuyerAddress", !.uid = uid,
                               !.isDefault = isDefault, !.addressId = addressId]
     IN IF OwnAddress(addressId, uid) = {}
          THEN ar' = [ar EXCEPT ![s] = [req EXCEPT !.pc = "done", !.resp = "404"]]
          ELSE ar' = [ar EXCEPT ![s] = [req EXCEPT !.pc = IF isDefault THEN "clear" ELSE "update"]]
  /\ UNCHANGED <<authVars, productVars, last, buyers, addresses, outAddr>>

\* prisma.address.updateMany({ where: { buyerId: userId }, data: { isDefault: false } })
ClearDefault(as, uid) == {IF a.buyerId = uid THEN [a EXCEPT !.isDefault = FALSE] ELSE a : a \in as}

AddressClear(s) ==
  /\ ar[s].pc = "clear"
  /\ addresses' = ClearDefault(addresses, ar[s].uid)
  /\ ar' = [ar EXCEPT ![s].pc = IF ar[s].op = "addBuyerAddress" THEN "create" ELSE "update"]
  /\ UNCHANGED <<authVars, calls, productVars, last, buyers, outAddr>>

\* prisma.address.create; ok = FALSE: the database refuses the row (the catch answers 500)
AddressCreate(s, ok) ==
  /\ ar[s].pc = "create"
  /\ IF ok
       THEN /\ addresses' = addresses \cup
                 {[id |-> nextId, buyerId |-> ar[s].uid, isDefault |-> ar[s].isDefault]}
            /\ nextId' = nextId + 1
            /\ ar' = [ar EXCEPT ![s].pc = "done", ![s].resp = "200"]
       ELSE /\ ar' = [ar EXCEPT ![s].pc = "done", ![s].resp = "500"]
            /\ UNCHANGED <<addresses, nextId>>
  /\ UNCHANGED <<users, refreshTokens, reg, calls, productVars, last, buyers, outAddr>>

\* prisma.address.update({ where: { id: addressId }, data: { ..., isDefault: isDefault || false } })
AddressUpdate(s) ==
  /\ ar[s].pc = "update"
  /\ IF \E a \in addresses : a.id = ar[s].addressId
       THEN /\ addresses' = {IF a.id = ar[s].addressId
                               THEN [a EXCEPT !.isDefault = ar[s].isDefault] ELSE a : a \in addresses}
            /\ ar' = [ar EXCEPT ![s].pc = "done", ![s].resp = "200"]
       ELSE /\ ar' = [ar EXCEPT ![s].pc = "done", ![s].resp = "500"]
            /\ UNCHANGED addresses
  /\ UNCHANGED <<authVars, calls, productVars, last, buyers, outAddr>>

\* deleteBuyerAddress: a deleted default address hands the default to another address
deleteBuyerAddress(s, uid, addressId) ==
  /\ ar[s].pc \in {"idle", "done"}
  /\ \A r \in AddrSlots : r < s => ar[r].pc \notin {"idle", "done"}
  /\ calls < MaxCalls
  /\ calls' = calls + 1
  /\ LET req == [IdleAr EXCEPT !.n = 1 - ar[s].n, !.op = "deleteBuyerAddress", !.uid = uid,
                               !.addressId = addressId, !.pc = "done"]
         own == OwnAddress(addressId, uid)
         others == {a \in addresses : a.buyerId = uid /\ a.id # addressId}
     IN IF own = {}
          THEN /\ ar' = [ar EXCEPT ![s] = [req EXCEPT !.resp = "404"]]
               /\ UNCHANGED addresses
          ELSE /\ ar' = [ar EXCEPT ![s] = [req EXCEPT !.resp = "200"]]
               /\ IF (\E a \in own : a.isDefault) /\ others # {}
                    THEN \E another \in others :
                           addresses' = ((addresses \ own) \ {another})
                                          \cup {[another EXCEPT !.isDefault = TRUE]}
                    ELSE addresses' = addresses \ own
  /\ UNCHANGED <<authVars, productVars, last, buyers, outAddr>>

\* two buyers and a user who is no buyer; no address yet
InitAddr ==
  /\ users = { [id |-> 1, email |-> "a@x", role |-> "BUYER"],
               [id |-> 2, email |-> "b@x", role |-> "BUYER"],
               [id |-> 3, email |-> "u@x", role |-> "USER"] }
  /\ buyers = {[id |-> 5, BuyerId |-> 1], [id |-> 6, BuyerId |-> 2]}
  /\ addresses = {}
  /\ ar = [s \in AddrSlots |-> IdleAr]
  /\ refreshTokens = {}
  /\ nextId = 10
  /\ reg = [r \in RegSlots |-> IdleReg]
  /\ calls = 0
  /\ tokens = {} /\ sellers = {} /\ products = {}
  /\ last = NoReq
  /\ ShopIdle /\ OrderIdle /\ OtpIdle /\ AdIdle /\ VerifyIdle /\ ResetIdle

AddressIds == {a.id : a \in addresses} \cup {0}

NextAddr ==
  \/ \E s \in AddrSlots, u \in users, dflt \in BOOLEAN : AddAddressFind(s, u.id, dflt)
  \/ \E s \in AddrSlots, u \in users, a \in AddressIds, dflt \in BOOLEAN :
        UpdateAddressFind(s, u.id, a, dflt)
  \/ \E s \in AddrSlots : AddressClear(s)
  \/ \E s \in AddrSlots, ok \in BOOLEAN : AddressCreate(s, ok)
  \/ \E s \in AddrSlots : AddressUpdate(s)
  \/ \E s \in AddrSlots, u \in users, a \in AddressIds : deleteBuyerAddress(s, u.id, a)

SpecAddr == InitAddr /\ [][NextAddr]_vars

-----------------------------------------------------------------------------
\* createOrder: one request followed from its arrival to its response.  The
\* handler never reads the Order table, so earlier orders only sit beside the
\* ones it creates.

MaxItems == 2

OrderProductIds == {10, 11, 12, 13}
OrderQtys       == {1, 2}
\* item.price as it arrives in the JSON body, character by character
PriceInputs     == {<<"3">>, <<"2", "a">>, <<"a">>}
ItemInputs      == [productId : OrderProductIds, quantity : OrderQtys, price : PriceInputs]
ItemSeqs        == UNION {[1..n -> ItemInputs] : n \in 0..MaxItems}

outOrder == <<users, refreshTokens, reg, calls, tokens, sellers, products,
              carts, cartItems, stock, co, addrVars, otpVars, addVars, verifyVars, resetVars>>

Digit == [c \in {"0", "1", "2", "3"} |-> CASE c = "0" -> 0 [] c = "1" -> 1
                                           [] c = "2" -> 2 [] c = "3" -> 3]
NaN   == [nan |-> TRUE, v |-> 0]
Num(n) == [nan |-> FALSE, v |-> n]

\* number of leading decimal digits of s
NumPrefixLen(s) ==
  Cardinality({k \in 1..Len(s) : \A j \in 1..k : s[j] \in DOMAIN Digit})

RECURSIVE DecValue(_, _)
DecValue(s, k) == IF k = 0 THEN 0 ELSE 10 * DecValue(s, k - 1) + Digit[s[k]]

\* parseFloat: the value of the longest numeric prefix, NaN when there is none
ParseFloat(s) ==
  LET k == NumPrefixLen(s) IN IF k = 0 THEN NaN ELSE Num(DecValue(s, k))

Mul(a, n) == IF a.nan THEN NaN ELSE Num(a.v * n)
Add(a, b) == IF a.nan \/ b.nan THEN NaN ELSE Num(a.v + b.v)

ProductById(found, id) == CHOOSE p \in found : p.id = id

FirstSellerKey(product, found) ==
  (CHOOSE p \in found : \A q \in found : p.id <= q.id).sellerId

\* the key an item is grouped under
SellerKey(product, found) == product.sellerId

\* items.forEach over the first k items: ordersBySeller
RECURSIVE OrdersBySeller(_, _, _)
OrdersBySeller(items, k, found) ==
  IF k = 0 THEN << >>
  ELSE LET g    == OrdersBySeller(items, k - 1, found)
           item == items[k]
       IN IF ~ \E p \in found : p.id = item.productId THEN g
          ELSE LET sid == SellerKey(ProductById(found, item.productId), found)
                   cur == IF sid \in DOMAIN g THEN g[sid]
                          ELSE [items |-> << >>, totalAmount |-> Num(0)]
                   new == [items |-> Append(cur.items,
                                      [productId |-> item.productId,
                                       quantity  |-> item.quantity,
                                       price     |-> ParseFloat(item.price)]),
                           totalAmount |-> Add(cur.totalAmount,
                                      Mul(ParseFloat(item.price), item.quantity))]
               IN [s \in (DOMAIN g) \cup {sid} |-> IF s = sid THEN new ELSE g[s]]

\* validation, buyer.findUnique, product.findMany and the grouping
CreateOrderStart(buyerId, totalAmount, items) ==
  /\ ord.pc = "idle"
  /\ last' = Answer("createOrder", buyerId, totalAmount, 0)
  /\ LET found == {p \in products : \E i \in DOMAIN items : items[i].productId = p.id}
         req   == [ord EXCEPT !.buyerId = buyerId, !.items = items]
     IN IF buyerId = 0 \/ totalAmount = 0 \/ Len(items) = 0
        THEN ord' = [req EXCEPT !.pc = "done", !.resp = 400]
        ELSE IF ~ \E b \in buyers : b.id = buyerId
        THEN ord' = [req EXCEPT !.pc = "done", !.resp = 404]
        ELSE IF found = {}
        THEN ord' = [req EXCEPT !.pc = "done", !.resp = 404]
        ELSE LET g == OrdersBySeller(items, Len(items), found)
             IN ord' = [req EXCEPT !.pc = "create", !.groups = g,
                                   !.pending = DOMAIN g]
  /\ UNCHANGED <<orders, nextId, outOrder>>

\* one prisma.order.create of the Promise.all settles
CreateOrderCreate(sid, ok) ==
  /\ ord.pc = "create"
  /\ sid \in ord.pending
  /\ LET g        == ord.groups[sid]
         accepted == ok /\ ~ g.totalAmount.nan
                        /\ \A k \in DOMAIN g.items : ~ g.items[k].price.nan
         rest     == ord.pending \ {sid}
         failed   == ord.failed \/ ~ accepted
     IN /\ IF accepted
           THEN /\ orders' = orders \cup
                      {[id |-> nextId, buyerId |-> ord.buyerId, sellerId |-> sid,
                        totalAmount |-> g.totalAmount.v,
                        items |-> [k \in DOMAIN g.items |->
                                     [productId |-> g.items[k].productId,
                                      quantity  |-> g.items[k].quantity,
                                      price     |-> g.items[k].price.v]]]}
                /\ nextId' = nextId + 1
           ELSE UNCHANGED <<orders, nextId>>
        /\ ord' = [ord EXCEPT
                     !.pending = rest,
                     !.created = IF accepted THEN @ \cup {nextId} ELSE @,
                     !.failed  = failed,
                     !.resp    = IF failed THEN 500 ELSE @,
                     !.pc      = IF rest # {} THEN "create"
                                 ELSE IF failed THEN "done" ELSE "mail"]
  /\ UNCHANGED <<last, outOrder>>

\* the mail to the buyer, the mails to the sellers, the 201
CreateOrderMail(ok) ==
  /\ ord.pc = "mail"
  /\ ord' = [ord EXCEPT !.pc = "done", !.resp = IF ok THEN 201 ELSE 500]
  /\ UNCHANGED <<last, orders, nextId, outOrder>>

EarlierOrder ==
  [id |-> 20, buyerId |-> 5, sellerId |-> 2, totalAmount |-> 3,
   items |-> <<[productId |-> 10, quantity |-> 1, price |-> 3]>>]

InitOrder ==
  /\ users = {[id |-> 1, email |-> "b@x", role |-> "BUYER"],
              [id |-> 2, email |-> "s@x", role |-> "SELLER"],
              [id |-> 3, email |-> "t@x", role |-> "SELLER"]}
  /\ buyers = {[id |-> 5, BuyerId |-> 1]}
  /\ sellers = {[sellerId |-> 2], [sellerId |-> 3]}
  /\ products = {[id |-> 10, sellerId |-> 2, status |-> "APPROVED"],
                 [id |-> 11, sellerId |-> 2, status |-> "APPROVED"],
                 [id |-> 12, sellerId |-> 3, status |-> "APPROVED"]}
  /\ orders \in {{}, {EarlierOrder}}
  /\ nextId = 21
  /\ ord = IdleOrd
  /\ refreshTokens = {} /\ reg = [s \in RegSlots |-> IdleReg]
  /\ calls = 0 /\ tokens = {} /\ last = NoReq
  /\ carts = {} /\ cartItems = {} /\ stock = InitialStock
  /\ co = [s \in CoSlots |-> IdleCo]
  /\ addresses = {} /\ ar = [s \in AddrSlots |-> IdleAr]
  /\ OtpIdle /\ AdIdle /\ VerifyIdle /\ ResetIdle

NextOrder ==
  \/ /\ ord.pc = "idle"
     /\ \E buyerId \in {0, 1, 5}, totalAmount \in {0, 7}, items \in ItemSeqs :
          CreateOrderStart(buyerId, totalAmount, items)
  \/ \E sid \in {2, 3}, ok \in BOOLEAN : CreateOrderCreate(sid, ok)
  \/ \E ok \in BOOLEAN : CreateOrderMail(ok)

SpecOrder == InitOrder /\ [][NextOrder]_vars

RECURSIVE ItemsTotal(_)
ItemsTotal(s) ==
  IF Len(s) = 0 THEN 0
  ELSE s[Len(s)].price * s[Len(s)].quantity + ItemsTotal(SubSeq(s, 1, Len(s) - 1))

\* the requested items of a known product of seller sid, in request order
RequestedOf(items, sid) ==
  SelectSeq(items, LAMBDA it : \E p \in products :
                                 p.id = it.productId /\ p.sellerId = sid)

\* C7: when createOrder answers 201, the orders it created are exactly one
\* per distinct seller among the products of the requested items; each holds
\* exactly the requested items whose product belongs to that seller, and its
\* totalAmount is the sum of price * quantity over those items.
C7_OneOrderPerSeller ==
  (ord.pc = "done" /\ ord.resp = 201) =>
    LET mine == {o \in orders : o.id \in ord.created}
        S    == {p.sellerId : p \in {q \in products :
                    \E i \in DOMAIN ord.items : ord.items[i].productId = q.id}}
    IN /\ \A s \in S : Cardinality({o \in mine : o.sellerId = s}) = 1
       /\ \A o \in mine :
            LET want == RequestedOf(ord.items, o.sellerId)
            IN /\ o.sellerId \in S
               /\ o.buyerId = ord.buyerId
               /\ Len(o.items) = Len(want)
               /\ \A k \in DOMAIN want :
                    /\ o.items[k].productId = want[k].productId
                    /\ o.items[k].quantity = want[k].quantity
                    /\ Num(o.items[k].price) = ParseFloat(want[k].price)
               /\ o.totalAmount = ItemsTotal(o.items)

C7_Witness ==
  /\ ord.pc = "done" /\ ord.resp = 201
  /\ Cardinality(ord.created) = 2
  /\ \E o1, o2 \in orders :
       /\ {o1.id, o2.id} = ord.created
       /\ o1.sellerId = 2 /\ o2.sellerId = 3
       /\ o1.items[1].quantity = 2

\* C23: whenever createOrder has answered with an error status, no Order
\* row created by that request exists.
C23_CreateOrderAllOrNothing ==
  (ord.pc = "done" /\ ord.resp \in {400, 404, 500}) =>
    ~ \E o \in orders : o.id \in ord.created

-----------------------------------------------------------------------------
\* sendOtp / verifyOtpAndAssignRole.  sendOtp is one step; a verification is
\* followed through its three awaited database calls (findFirst, $transaction,
\* otp.delete), so that requests overlap and the clock moves between them.

MaxOtpCalls == 3       \* sendOtp and verifyOtpAndAssignRole requests in one behaviour
MaxTime     == 3       \* ticks the clock advances in one behaviour
OtpLifetime == 2       \* 10 minutes
RateWindow  == 1       \* 5 minutes
MaxAttempts == 5

OtpCodes  == {"111111", "222222"}
\* req.body.role, and whether the four seller details came with it
BodyRoles == {<<"BUYER", FALSE>>, <<"SELLER", TRUE>>, <<"SELLER", FALSE>>, <<"ADMIN", FALSE>>}

outAssign == <<refreshTokens, reg, tokens, products, shopVars, addresses, ar, orderVars, addVars, resetVars>>
outOtp == <<outAssign, ab>>

\* the Otp rows of a user, and the one findFirst returns (orderBy expiresAt desc)
OtpsOf(uid) == {r \in otps : r.userId = uid}
Latest(rows) == CHOOSE r \in rows : \A q \in rows : q.expiresAt <= r.expiresAt

sendOtp(tok, code, mailOk) ==
  /\ calls < MaxOtpCalls
  /\ tok \in tokens /\ HasUser(tok)
  /\ LET user   == UserOf(tok)
         mine   == OtpsOf(user.id)
         status == IF user.role = "SELLER" THEN 403
                   ELSE IF mine # {} /\ now < Latest(mine).expiresAt + RateWindow THEN 429
                   ELSE IF mine # {} THEN 500      \* Otp_userId_key
                   ELSE IF mailOk THEN 200 ELSE 500
         stores == user.role # "SELLER" /\ mine = {}
     IN /\ IF stores
           THEN /\ otps' = otps \cup {[id |-> nextId, userId |-> user.id, otp |-> code,
                                       expiresAt |-> now + OtpLifetime, attempts |-> 0]}
                /\ nextId' = nextId + 1
           ELSE UNCHANGED <<otps, nextId>>
        /\ last' = Answer("sendOtp", user.id, code, status)
  /\ calls' = calls + 1
  /\ UNCHANGED <<users, buyers, sellers, now, vr, fails, outOtp, verifyVars>>

OtpExpiredNever(row) == FALSE

\* new Date() > storedOtp.expiresAt
OtpExpired(row) == now > row.expiresAt

\* role check, otp.findFirst, expiry, attempts, seller details
VerifyCheck(s, tok, code, role, fieldsOk) ==
  /\ vr[s].pc \in {"idle", "done"}
  /\ \A s2 \in VrSlots : vr[s2].pc = "idle" => vr[s].pc = "idle"
  /\ tok \in tokens /\ HasUser(tok)
  /\ LET user   == UserOf(tok)
         stored == {r \in OtpsOf(user.id) : r.otp = code}
         row    == Latest(stored)
         req    == [pc |-> "done", n |-> 1 - vr[s].n, uid |-> user.id, otp |-> code,
                    role |-> role, stored |-> 0, resp |-> 0]
     IN /\ last' = Answer("verifyOtpAndAssignRole", user.id, <<code, role>>, 0)
        /\ IF role \notin {"BUYER", "SELLER"}
           THEN vr' = [vr EXCEPT ![s] = [req EXCEPT !.resp = 400]] /\ otps' = otps
           ELSE IF stored = {} \/ OtpExpired(row)
           THEN vr' = [vr EXCEPT ![s] = [req EXCEPT !.resp = 400]] /\ otps' = otps
           ELSE IF row.attempts >= MaxAttempts
           THEN vr' = [vr EXCEPT ![s] = [req EXCEPT !.resp = 429]] /\ otps' = otps \ {row}
           ELSE IF role = "SELLER" /\ ~ fieldsOk
           THEN vr' = [vr EXCEPT ![s] = [req EXCEPT !.resp = 400]] /\ otps' = otps
           ELSE vr' = [vr EXCEPT ![s] = [req EXCEPT !.pc = "assign", !.stored = row.id]]
                /\ otps' = otps
  /\ calls' = calls + 1
  /\ UNCHANGED <<users, buyers, sellers, nextId, now, outOtp, verifyVars>>

VerifyFind(s, tok, code, role, fieldsOk) ==
  /\ calls < MaxOtpCalls
  /\ VerifyCheck(s, tok, code, role, fieldsOk)
  /\ UNCHANGED fails

SetRole(uid, role) ==
  {IF u.id = uid THEN [u EXCEPT !.role = role] ELSE u : u \in users}

\* $transaction [user.update, seller.create | buyer.create]; the mail that
\* follows swallows its own errors
VerifyAssign(s) ==
  /\ vr[s].pc = "assign"
  /\ LET uid   == vr[s].uid
         taken == IF vr[s].role = "SELLER"
                  THEN \E r \in sellers : r.sellerId = uid
                  ELSE \E b \in buyers : b.BuyerId = uid
     IN IF taken
        THEN /\ vr' = [vr EXCEPT ![s].pc = "done", ![s].resp = 500]
             /\ UNCHANGED <<users, buyers, sellers, nextId, userVerified>>
        ELSE /\ users' = SetRole(uid, vr[s].role)
             /\ IF vr[s].role = "SELLER"
                THEN /\ sellers' = sellers \cup {[sellerId |-> uid]}
                     /\ UNCHANGED <<buyers, nextId, userVerified>>
                ELSE /\ buyers' = buyers \cup {[id |-> nextId, BuyerId |-> uid]}
                     /\ nextId' = nextId + 1
                     /\ userVerified' = userVerified \cup {uid}
                     /\ UNCHANGED sellers
             /\ vr' = [vr EXCEPT ![s].pc = "delete"]
  /\ UNCHANGED <<otps, calls, last, now, fails, outOtp, sellerVerified, vs>>

\* otp.delete({where: {id: storedOtp.id}}) and the 200
VerifyDelete(s) ==
  /\ vr[s].pc = "delete"
  /\ IF \E r \in otps : r.id = vr[s].stored
     THEN /\ otps' = {r \in otps : r.id # vr[s].stored}
          /\ vr' = [vr EXCEPT ![s].pc = "done", ![s].resp = 200]
     ELSE /\ otps' = otps
          /\ vr' = [vr EXCEPT ![s].pc = "done", ![s].resp = 500]
  /\ UNCHANGED <<users, buyers, sellers, nextId, calls, last, now, fails, outOtp, verifyVars>>

Tick ==
  /\ now < MaxTime
  /\ now' = now + 1
  /\ UNCHANGED <<users, buyers, sellers, nextId, calls, last, otps, vr, fails, outOtp, verifyVars>>

InitOtp ==
  /\ users = {[id |-> 1, email |-> "a@x", role |-> "USER"],
              [id |-> 2, email |-> "b@x", role |-> "USER"]}
  /\ tokens = {[id |-> 1, email |-> "a@x", role |-> "USER"],
               [id |-> 2, email |-> "b@x", role |-> "USER"]}
  /\ refreshTokens = {} /\ reg = [s \in RegSlots |-> IdleReg]
  /\ nextId = 10 /\ calls = 0 /\ last = NoReq
  /\ sellers = {} /\ products = {}
  /\ ShopIdle /\ AddrIdle /\ OrderIdle /\ OtpIdle /\ AdIdle /\ VerifyIdle /\ ResetIdle

NextOtp ==
  \/ \E tok \in tokens, code \in OtpCodes, mailOk \in BOOLEAN : sendOtp(tok, code, mailOk)
  \/ \E s \in VrSlots, tok \in tokens, code \in OtpCodes, body \in BodyRoles :
       VerifyFind(s, tok, code, body[1], body[2])
  \/ \E s \in VrSlots : VerifyAssign(s)
  \/ \E s \in VrSlots : VerifyDelete(s)
  \/ Tick

SpecOtp == InitOtp /\ [][NextOtp]_vars

\* C18: a sendOtp of a user (not a SELLER) whose stored OTP has expired
\* unused and whose rate-limit window has elapsed stores a new OTP for that
\* user, which a verification can then find.
C18_OtpNeverStuck ==
  [][(calls' # calls /\ last'.op = "sendOtp") =>
       LET uid  == last'.actor
           mine == {r \in otps : r.userId = uid}
       IN (/\ mine # {}
           /\ \A r \in mine : OtpExpired(r) /\ now >= r.expiresAt + RateWindow
           /\ \E u \in users : u.id = uid /\ u.role # "SELLER") =>
            \E r \in otps' : /\ r \notin otps
                             /\ r.userId = uid
                             /\ r.otp = last'.arg
                             /\ r.expiresAt = now + OtpLifetime ]_vars

-----------------------------------------------------------------------------
\* Repeated verifications against one stored OTP: user 1 holds an OTP (the
\* state a sendOtp answered 200 leaves) and verifies again and again.

MaxVerifyCalls == 6    \* verifications started in one behaviour

\* the verification is answered "Invalid or expired OTP" while the caller
\* holds an Otp row
FailedAttempt(tok, code, role) ==
  LET mine   == OtpsOf(UserOf(tok).id)
      stored == {r \in mine : r.otp = code}
  IN /\ role \in {"BUYER", "SELLER"}
     /\ mine # {}
     /\ (stored = {} \/ OtpExpired(Latest(stored)))

AttemptVerify(s, tok, code, role, fieldsOk) ==
  /\ calls < MaxVerifyCalls
  /\ VerifyCheck(s, tok, code, role, fieldsOk)
  /\ fails' = IF FailedAttempt(tok, code, role) THEN fails + 1 ELSE fails

InitAttempts ==
  /\ users = {[id |-> 1, email |-> "a@x", role |-> "USER"],
              [id |-> 2, email |-> "b@x", role |-> "USER"]}
  /\ tokens = {[id |-> 1, email |-> "a@x", role |-> "USER"]}
  /\ refreshTokens = {} /\ reg = [s \in RegSlots |-> IdleReg]
  /\ nextId = 11 /\ calls = 0 /\ last = NoReq
  /\ sellers = {} /\ products = {}
  /\ ShopIdle /\ AddrIdle /\ OrderIdle /\ AdIdle /\ VerifyIdle /\ ResetIdle
  /\ otps = {[id |-> 10, userId |-> 1, otp |-> "111111",
              expiresAt |-> OtpLifetime, attempts |-> 0]}
  /\ now = 0 /\ vr = [s \in VrSlots |-> IdleVr] /\ ab = {} /\ fails = 0

NextAttempts ==
  \/ \E s \in VrSlots, tok \in tokens, code \in OtpCodes, body \in BodyRoles :
       AttemptVerify(s, tok, code, body[1], body[2])
  \/ \E s \in VrSlots : VerifyAssign(s)
  \/ \E s \in VrSlots : VerifyDelete(s)
  \/ Tick

SpecAttempts == InitAttempts /\ [][NextAttempts]_vars

\* C17: once 5 verifications of a user have failed against the stored OTP, a
\* verification that submits that OTP's code is answered 429 and deletes the
\* OTP, and no role is assigned any more.
C17_AttemptsLockout ==
  [][\A s \in VrSlots :
       /\ (/\ vr'[s].n # vr[s].n
           /\ fails >= MaxAttempts
           /\ vr'[s].role \in {"BUYER", "SELLER"}
           /\ \E r \in otps : /\ r.userId = vr'[s].uid
                              /\ r.otp = vr'[s].otp
                              /\ ~ OtpExpired(r)) =>
            /\ vr'[s].pc = "done" /\ vr'[s].resp = 429
            /\ ~ \E r \in otps' : r.userId = vr'[s].uid /\ r.otp = vr'[s].otp
       /\ (vr[s].pc = "assign" /\ vr'[s].pc = "delete") => fails < MaxAttempts
    ]_vars

-----------------------------------------------------------------------------
\* The two generations of role assignment side by side: assignBuyer and
\* assignSeller (auth.controller.ts) and the OTP flow.

\* assignBuyer up to prisma.user.update({ role: "BUYER", isVerified: true })
AssignBuyerUpdate(tok, addressOk) ==
  /\ calls < MaxOtpCalls
  /\ tok \in tokens /\ HasUser(tok)
  /\ LET user == UserOf(tok)
         status == IF ~ \E r \in refreshTokens : r.userId = user.id THEN 401
                   ELSE IF user.role = "SELLER" THEN 403
                   ELSE IF ~ addressOk THEN 400
                   ELSE IF user.role = "BUYER" THEN 409
                   ELSE 0
     IN /\ last' = Answer("assignBuyer", user.id, addressOk, status)
        /\ IF status = 0
             THEN /\ users' = SetRole(user.id, "BUYER")
                  /\ userVerified' = userVerified \cup {user.id}
                  /\ ab' = ab \cup {user.id}
             ELSE UNCHANGED <<users, userVerified, ab>>
  /\ calls' = calls + 1
  /\ UNCHANGED <<buyers, sellers, nextId, otps, now, vr, fails, outAssign, sellerVerified, vs>>

\* prisma.buyer.create({ BuyerId, address }); ok = FALSE: the Buyer table of
\* the database has no address column and the row is refused (500)
AssignBuyerCreate(uid, ok) ==
  /\ uid \in ab
  /\ ab' = ab \ {uid}
  /\ IF ok /\ ~ \E b \in buyers : b.BuyerId = uid
       THEN buyers' = buyers \cup {[id |-> nextId, BuyerId |-> uid]} /\ nextId' = nextId + 1
       ELSE UNCHANGED <<buyers, nextId>>
  /\ UNCHANGED <<users, sellers, calls, last, otps, now, vr, fails, outAssign, verifyVars>>

InitRole ==
  /\ users = {[id |-> 1, email |-> "a@x", role |-> "USER"],
              [id |-> 2, email |-> "b@x", role |-> "USER"]}
  /\ tokens = {[id |-> 1, email |-> "a@x", role |-> "USER"],
               [id |-> 2, email |-> "b@x", role |-> "USER"]}
  /\ refreshTokens = {[userId |-> 1, token |-> "r1"]}
  /\ reg = [s \in RegSlots |-> IdleReg]
  /\ nextId = 10 /\ calls = 0 /\ last = NoReq
  /\ sellers = {} /\ products = {}
  /\ ShopIdle /\ AddrIdle /\ OrderIdle /\ OtpIdle /\ AdIdle /\ VerifyIdle /\ ResetIdle

NextRole ==
  \/ NextOtp
  \/ \E tok \in tokens, addressOk \in BOOLEAN : AssignBuyerUpdate(tok, addressOk)
  \/ \E uid \in {u.id : u \in users}, ok \in BOOLEAN : AssignBuyerCreate(uid, ok)
  \/ \E tok \in tokens, fieldsOk \in BOOLEAN : assignSeller(tok, fieldsOk)

SpecRole == InitRole /\ [][NextRole]_vars

\* C15: no user has both a Buyer record and a Seller record.
C15_BuyerOrSeller ==
  \A u \in users :
    ~ ((\E b \in buyers : b.BuyerId = u.id) /\ (\E r \in sellers : r.sellerId = u.id))

\* C19: in every reachable state a user's role is BUYER only if a Buyer row
\* with BuyerId = user.id exists, and SELLER only if a Seller row with
\* sellerId = user.id exists.
C19_RoleHasRecord ==
  \A u \in users :
    /\ u.role = "BUYER" => \E b \in buyers : b.BuyerId = u.id
    /\ u.role = "SELLER" => \E r \in sellers : r.sellerId = u.id

\* C9: a verification gets past its check only when an Otp row of the
\* caller carries the submitted code and is not expired, and a role changes
\* only through such a verification, to BUYER or SELLER; a verification
\* answered 200 leaves no Otp row of the user with that code, and a
\* verification made while no such row exists answers 400 and assigns nothing.
C9_OtpSingleUse ==
  [][ /\ \A s \in VrSlots :
           (vr'[s].pc = "assign" /\ vr[s].pc # "assign") =>
             /\ vr'[s].role \in {"BUYER", "SELLER"}
             /\ \E r \in otps : /\ r.userId = vr'[s].uid
                                /\ r.otp = vr'[s].otp
                                /\ ~ (now > r.expiresAt)
      /\ \A u \in users, w \in users' :
           (u.id = w.id /\ u.role # w.role) =>
             /\ w.role \in {"BUYER", "SELLER"}
             /\ \E s \in VrSlots : /\ vr[s].pc = "assign"
                                   /\ vr[s].uid = u.id
                                   /\ vr[s].role = w.role
      /\ \A s \in VrSlots :
           (vr[s].pc = "delete" /\ vr'[s].resp = 200) =>
             ~ \E r \in otps' : r.userId = vr[s].uid /\ r.otp = vr[s].otp
      /\ \A s \in VrSlots :
           (/\ vr'[s].n # vr[s].n
            /\ ~ \E r \in otps : r.userId = vr'[s].uid /\ r.otp = vr'[s].otp) =>
             /\ vr'[s].pc = "done" /\ vr'[s].resp = 400
             /\ users' = users /\ buyers' = buyers /\ sellers' = sellers
    ]_vars

C9_Witness ==
  \E s1, s2 \in VrSlots :
    /\ s1 # s2
    /\ vr[s1].pc = "done" /\ vr[s1].resp = 200 /\ vr[s1].role = "SELLER"
    /\ vr[s2].pc = "done" /\ vr[s2].resp = 400 /\ vr[s2].role = "BUYER"
    /\ vr[s2].uid = vr[s1].uid /\ vr[s2].otp = vr[s1].otp
    /\ last = Answer("verifyOtpAndAssignRole", vr[s2].uid, <<vr[s2].otp, "BUYER">>, 0)
    /\ now < OtpLifetime
    /\ \E u \in users : u.id = vr[s1].uid /\ u.role = "SELLER"

\* C16: a sendOtp of a user who requested an OTP within the last 5 minutes
\* answers 429 and stores nothing; any other sendOtp (of a user who is not a
\* SELLER) stores a new OTP that expires 10 minutes later and is not refused.
C16_SendOtpRateLimit ==
  [][(calls' # calls /\ last'.op = "sendOtp") =>
       LET uid    == last'.actor
           recent == \E r \in otps : /\ r.userId = uid
                                     /\ now < (r.expiresAt - OtpLifetime) + RateWindow
       IN IF recent
            THEN last'.status = 429 /\ otps' = otps
            ELSE (\E u \in users : u.id = uid /\ u.role # "SELLER") =>
                   /\ last'.status \in {200, 500}
                   /\ \E r \in otps' : /\ r \notin otps
                                       /\ r.userId = uid /\ r.otp = last'.arg
                                       /\ r.expiresAt = now + OtpLifetime
    ]_vars

-----------------------------------------------------------------------------
\* verifySeller, in its two generations: the routed handler of
\* auth.controller.ts (two separate updates) and the handler of
\* product.controller.ts (one transaction).

MaxVerifySellerCalls == 3   \* verifySeller requests in one behaviour

\* req.body.email; "bad" is no e-mail address
VerifyEmails == {"s@x", "u@x", "nobody@x", "bad"}
ValidEmail(email) == email # "bad"

\* Seller.id: @id @default(uuid()), a generated key that is no user's id
SellerPk(row) == 0 - row.sellerId

outVerify == <<users, refreshTokens, nextId, reg, tokens, sellers, products,
               shopVars, addrVars, orderVars, otpVars, addVars, resetVars>>

\* the checks the two handlers share, after the role check: 0 when they pass
VerifySellerStatus(email) ==
  LET target == {u \in users : u.email = email}
      user   == CHOOSE u \in target : TRUE
  IN IF target = {} THEN 404
     ELSE IF ~ \E r \in sellers : r.sellerId = user.id THEN 404
     ELSE IF user.id \in sellerVerified THEN 400
     ELSE 0

\* PUT /admin/verify-seller (authenticateUser, isAdmin, verifySeller of
\* auth.controller.ts) up to prisma.user.update({ isVerified: true })
verifySeller(tok, email) ==
  /\ calls < MaxVerifySellerCalls
  /\ tok \in tokens /\ HasUser(tok)
  /\ LET admin  == UserOf(tok)
         status == IF ~ isAdmin(tok) THEN 403
                   ELSE IF admin.role # "ADMIN" THEN 403
                   ELSE VerifySellerStatus(email)
         user   == CHOOSE u \in users : u.email = email
     IN /\ last' = Answer("verifySeller", admin.id, email, status)
        /\ IF status = 0
           THEN /\ userVerified' = userVerified \cup {user.id}
                /\ vs' = vs \cup {[admin |-> admin.id, email |-> email, uid |-> user.id]}
           ELSE UNCHANGED <<userVerified, vs>>
  /\ calls' = calls + 1
  /\ UNCHANGED <<sellerVerified, outVerify>>

\* prisma.seller.update({ where: { sellerId: seller.id } }) and the answer
VerifySellerUpdate(req) ==
  /\ req \in vs
  /\ vs' = vs \ {req}
  /\ LET seller == CHOOSE r \in sellers : r.sellerId = req.uid
         hit    == {r \in sellers : r.sellerId = SellerPk(seller)}
     IN IF hit # {}
        THEN /\ sellerVerified' = sellerVerified \cup {r.sellerId : r \in hit}
             /\ last' = Answer("verifySeller", req.admin, req.email, 200)
        ELSE /\ sellerVerified' = sellerVerified
             /\ last' = Answer("verifySeller", req.admin, req.email, 500)
  /\ UNCHANGED <<calls, userVerified, outVerify>>

\* verifySeller of product.controller.ts: $transaction [user.update,
\* seller.update]; the mail that follows swallows its own errors
verifySellerTransaction(tok, email) ==
  /\ calls < MaxVerifySellerCalls
  /\ tok \in tokens /\ HasUser(tok)
  /\ LET admin  == UserOf(tok)
         status == IF admin.role # "ADMIN" THEN 403
                   ELSE IF ~ ValidEmail(email) THEN 400
                   ELSE VerifySellerStatus(email)
         user   == CHOOSE u \in users : u.email = email
     IN IF status = 0
        THEN /\ userVerified' = userVerified \cup {user.id}
             /\ sellerVerified' = sellerVerified \cup {user.id}
             /\ last' = Answer("verifySeller", admin.id, email, 200)
        ELSE /\ UNCHANGED <<userVerified, sellerVerified>>
             /\ last' = Answer("verifySeller", admin.id, email, status)
  /\ calls' = calls + 1
  /\ UNCHANGED <<vs, outVerify>>

InitVerify ==
  /\ users = {[id |-> 1, email |-> "admin@x", role |-> "ADMIN"],
              [id |-> 2, email |-> "s@x", role |-> "SELLER"],
              [id |-> 3, email |-> "u@x", role |-> "USER"],
              [id |-> 4, email |-> "root@x", role |-> "ADMIN"]}
  /\ tokens = {[id |-> u.id, email |-> u.email, role |-> u.role] : u \in users}
  /\ refreshTokens = {} /\ reg = [s \in RegSlots |-> IdleReg]
  /\ nextId = 10 /\ calls = 0 /\ last = NoReq
  /\ sellers = {[sellerId |-> 2]} /\ products = {}
  /\ RestIdle

NextVerify ==
  \/ \E tok \in tokens, email \in VerifyEmails : verifySeller(tok, email)
  \/ \E req \in vs : VerifySellerUpdate(req)
  \/ \E tok \in tokens, email \in VerifyEmails : verifySellerTransaction(tok, email)
  \/ \E tok \in tokens, fieldsOk \in BOOLEAN : assignSeller(tok, fieldsOk)

SpecVerify == InitVerify /\ [][NextVerify]_vars

\* C20: a verifySeller request of a user whose role is not ADMIN answers 403
\* and changes nothing; a verifySeller for a seller that is already verified
\* answers 400 and changes nothing; and user.isVerified and seller.isVerified
\* of a seller never differ.
C20_VerifySeller ==
  [][ /\ (calls' # calls /\ last'.op = "verifySeller") =>
           /\ (\E u \in users : u.id = last'.actor /\ u.role # "ADMIN") =>
                /\ last'.status = 403
                /\ UNCHANGED <<users, sellers, verifyVars>>
           /\ (\E u \in users : /\ u.id = last'.actor /\ u.role = "ADMIN"
               /\ \E t \in users : t.email = last'.arg /\ t.id \in sellerVerified) =>
                /\ last'.status = 400
                /\ UNCHANGED <<users, sellers, verifyVars>>
      /\ \A r \in sellers' :
           (r.sellerId \in userVerified') <=> (r.sellerId \in sellerVerified')
    ]_vars

-----------------------------------------------------------------------------
\* passwordRequest / updatePassword, database call by database call.  The
\* clock of this specification ticks in half hours.

MaxResetCalls == 3     \* passwordRequest and updatePassword requests in one behaviour
ResetLifetime == 2     \* 3600000 ms

ResetEmails  == {"a@x", "b@x", "nobody@x", "bad"}
NewPasswords == {"secret1", "secret2", "short"}

\* crypto.createHash("sha256").update(resetToken).digest("hex")
Sha256(raw) == <<"sha256", raw>>
\* bcrypt.hash(newPassword, salt)
Bcrypt(pw) == <<"bcrypt", pw>>
\* passwordSchema: newPassword of at least 6 characters
PasswordOk(pw) == pw # "short"

outReset == <<users, refreshTokens, reg, tokens, sellers, products,
              shopVars, addrVars, orderVars, otpVars, addVars, verifyVars>>

\* validateEmail, user.findUnique and passwordResetToken.deleteMany
PasswordRequestDelete(email) ==
  /\ calls < MaxResetCalls
  /\ LET target == {u \in users : u.email = email}
         user   == CHOOSE u \in target : TRUE
     IN IF ~ ValidEmail(email)
        THEN /\ last' = Answer("passwordRequest", 0, email, 400)
             /\ UNCHANGED <<resetTokens, pq>>
        ELSE IF target = {}
        THEN /\ last' = Answer("passwordRequest", 0, email, 200)
             /\ UNCHANGED <<resetTokens, pq>>
        ELSE /\ resetTokens' = {r \in resetTokens : r.userId # user.id}
             /\ pq' = pq \cup {[userId |-> user.id, req |-> calls + 1]}
             /\ last' = Answer("passwordRequest", user.id, email, 0)
  /\ calls' = calls + 1
  /\ UNCHANGED <<nextId, passwords, issued, spent, up, outReset>>

\* passwordResetToken.create (userId @unique), the mail and the answer
PasswordRequestCreate(req, mailOk) ==
  /\ req \in pq
  /\ pq' = pq \ {req}
  /\ IF \E r \in resetTokens : r.userId = req.userId
     THEN /\ last' = Answer("passwordRequest", req.userId, 0, 500)
          /\ UNCHANGED <<resetTokens, issued, nextId>>
     ELSE /\ resetTokens' = resetTokens \cup {[userId |-> req.userId, token |-> Sha256(nextId),
                                              expiresAt |-> now + ResetLifetime]}
          /\ issued' = issued \cup {[userId |-> req.userId, raw |-> nextId]}
          /\ nextId' = nextId + 1
          /\ last' = Answer("passwordRequest", req.userId, nextId, IF mailOk THEN 200 ELSE 500)
  /\ UNCHANGED <<calls, passwords, spent, up, outReset>>

TokenExpiredNever(row) == FALSE

\* tokenRecord.expiresAt < new Date()
TokenExpired(row) == row.expiresAt < now

\* validatePassword and passwordResetToken.findUnique({ token: hashedToken })
UpdatePasswordFind(s, raw, pw) ==
  /\ calls < MaxResetCalls
  /\ up[s].pc \in {"idle", "done"}
  /\ \A s2 \in UpSlots : up[s2].pc = "idle" => up[s].pc = "idle"
  /\ LET found == {r \in resetTokens : r.token = Sha256(raw)}
         row   == CHOOSE r \in found : TRUE
         req   == [pc |-> "done", n |-> 1 - up[s].n, raw |-> raw, pw |-> pw,
                   userId |-> 0, resp |-> 400]
     IN IF ~ PasswordOk(pw) THEN up' = [up EXCEPT ![s] = req]
        ELSE IF found = {} \/ TokenExpired(row) THEN up' = [up EXCEPT ![s] = req]
        ELSE up' = [up EXCEPT ![s] = [req EXCEPT !.pc = "update", !.userId = row.userId,
                                                 !.resp = 0]]
  /\ last' = Answer("updatePassword", 0, raw, 0)
  /\ calls' = calls + 1
  /\ UNCHANGED <<nextId, resetTokens, passwords, issued, spent, pq, outReset>>

\* prisma.user.update({ password: hashedPassword })
UpdatePasswordUpdate(s) ==
  /\ up[s].pc = "update"
  /\ passwords' = [passwords EXCEPT ![up[s].userId] = Bcrypt(up[s].pw)]
  /\ up' = [up EXCEPT ![s].pc = "delete"]
  /\ UNCHANGED <<nextId, calls, last, resetTokens, issued, spent, pq, outReset>>

\* passwordResetToken.delete({ token: hashedToken }) and the answer
UpdatePasswordDelete(s) ==
  /\ up[s].pc = "delete"
  /\ IF \E r \in resetTokens : r.token = Sha256(up[s].raw)
     THEN /\ resetTokens' = {r \in resetTokens : r.token # Sha256(up[s].raw)}
          /\ spent' = spent \cup {up[s].raw}
          /\ up' = [up EXCEPT ![s].pc = "done", ![s].resp = 200]
     ELSE /\ UNCHANGED <<resetTokens, spent>>
          /\ up' = [up EXCEPT ![s].pc = "done", ![s].resp = 500]
  /\ UNCHANGED <<nextId, calls, last, passwords, issued, pq, outReset>>

InitReset ==
  /\ users = {[id |-> 1, email |-> "a@x", role |-> "USER"],
              [id |-> 2, email |-> "b@x", role |-> "USER"]}
  /\ tokens = {} /\ refreshTokens = {} /\ reg = [s \in RegSlots |-> IdleReg]
  /\ nextId = 10 /\ calls = 0 /\ last = NoReq
  /\ sellers = {} /\ products = {}
  /\ ShopIdle /\ AddrIdle /\ OrderIdle /\ OtpIdle /\ AdIdle /\ VerifyIdle
  /\ resetTokens = {} /\ issued = {} /\ spent = {} /\ pq = {}
  /\ passwords = [i \in {1, 2} |-> Bcrypt("first")]
  /\ up = [s \in UpSlots |-> IdleUp]

\* the reset tokens a requester can hold: those stored so far, or none of them
RawTokens == {i.raw : i \in issued} \cup {0}

NextReset ==
  \/ \E email \in ResetEmails : PasswordRequestDelete(email)
  \/ \E req \in pq, mailOk \in BOOLEAN : PasswordRequestCreate(req, mailOk)
  \/ \E s \in UpSlots, raw \in RawTokens, pw \in NewPasswords : UpdatePasswordFind(s, raw, pw)
  \/ \E s \in UpSlots : UpdatePasswordUpdate(s)
  \/ \E s \in UpSlots : UpdatePasswordDelete(s)
  \/ Tick

SpecReset == InitReset /\ [][NextReset]_vars

\* the token stored last for a user
LatestIssued(uid) ==
  LET mine == {i.raw : i \in {j \in issued : j.userId = uid}}
  IN CHOOSE t \in mine : \A q \in mine : q <= t

\* C21: an updatePassword gets past its check only with a token that is its
\* user's most recently issued one and has not expired; a password changes
\* only through such a request, for that user; and an updatePassword made
\* with a token after an updatePassword answered 200 for it, or after a
\* newer token was issued for its user, answers 400 and changes no password.
C21_ResetTokenSingleUse ==
  [][ /\ \A s \in UpSlots :
           (up'[s].pc = "update" /\ up[s].pc # "update") =>
             \E r \in resetTokens :
               /\ r.token = Sha256(up'[s].raw)
               /\ r.userId = up'[s].userId
               /\ up'[s].raw = LatestIssued(r.userId)
               /\ ~ (r.expiresAt < now)
      /\ \A i \in DOMAIN passwords :
           passwords'[i] # passwords[i] =>
             \E s \in UpSlots : up[s].pc = "update" /\ up[s].userId = i
      /\ \A s \in UpSlots :
           (/\ up'[s].n # up[s].n
            /\ \/ up'[s].raw \in spent
               \/ \E i \in issued : /\ i.raw = up'[s].raw
                                    /\ up'[s].raw # LatestIssued(i.userId)) =>
             /\ up'[s].pc = "done" /\ up'[s].resp = 400
             /\ passwords' = passwords
    ]_vars

\* a token was used (200), and a second updatePassword with it was answered 400
C21_Witness ==
  \E s1, s2 \in UpSlots :
    /\ s1 # s2
    /\ up[s1].pc = "done" /\ up[s1].resp = 200
    /\ up[s2].pc = "done" /\ up[s2].resp = 400 /\ up[s2].raw = up[s1].raw
    /\ up[s2].pw = "secret2" /\ up[s1].pw = "secret1"
    /\ up[s1].raw \in spent
    /\ last = Answer("updatePassword", 0, up[s2].raw, 0)
    /\ passwords[up[s1].userId] = Bcrypt("secret1")

====
